---------------------------- MODULE Spec2Model ----------------------------
(***************************************************************************)
(* Model of the CFD Case Viewer (src/mainApp.py): the filename metadata    *)
(* parser, the per-case image index, and the Streamlit script run that     *)
(* follows every user interaction.                                         *)
(*                                                                         *)
(* Filenames and views are sequences of one-character strings, so that     *)
(* splitting, digit-run search and integer conversion are computed the way *)
(* the code computes them.                                                 *)
(***************************************************************************)
EXTENDS Integers, Sequences, FiniteSets, TLC

None == "None"

\* ------------------------------------------------------------------------
\* Bounds of the model
\* ------------------------------------------------------------------------
MaxNameLen == 8
MaxFiles == 4

\* ------------------------------------------------------------------------
\* Small helpers
\* ------------------------------------------------------------------------
MinOf(S) == CHOOSE x \in S : \A y \in S : x <= y
MaxOf(S) == CHOOSE x \in S : \A y \in S : x >= y
Range(s) == {s[i] : i \in 1..Len(s)}

Digits == {"0", "1", "2", "3", "4", "5", "6", "7", "8", "9"}

DigitVal(ch) ==
    CASE ch = "0" -> 0 [] ch = "1" -> 1 [] ch = "2" -> 2 [] ch = "3" -> 3
      [] ch = "4" -> 4 [] ch = "5" -> 5 [] ch = "6" -> 6 [] ch = "7" -> 7
      [] ch = "8" -> 8 [] ch = "9" -> 9

\* int(s) for a string of decimal digits
RECURSIVE IntOf(_)
IntOf(ds) ==
    IF ds = <<>> THEN 0
    ELSE IntOf(SubSeq(ds, 1, Len(ds) - 1)) * 10 + DigitVal(ds[Len(ds)])

\* os.path.splitext(filename)[0]: cut at the last dot, unless nothing but
\* dots precedes it
Splitext0(name) ==
    LET dots == {i \in 1..Len(name) : name[i] = "."}
    IN  IF dots = {} THEN name
        ELSE LET d == MaxOf(dots)
             IN  IF \E i \in 1..(d - 1) : name[i] # "."
                 THEN SubSeq(name, 1, d - 1)
                 ELSE name

\* str.split("_"): every underscore separates, empty tokens are kept
RECURSIVE SplitUnderscore(_)
SplitUnderscore(s) ==
    LET us == {i \in 1..Len(s) : s[i] = "_"}
    IN  IF us = {} THEN <<s>>
        ELSE LET i == MinOf(us)
             IN  <<SubSeq(s, 1, i - 1)>> \o SplitUnderscore(SubSeq(s, i + 1, Len(s)))

\* re.search(r"(\d{6})", s): the leftmost six consecutive digits, or <<>>
\* when there is no match
ReSearch6(s) ==
    LET starts == {i \in 1..(Len(s) - 5) : \A k \in 0..5 : s[i + k] \in Digits}
    IN  IF starts = {} THEN <<>>
        ELSE SubSeq(s, MinOf(starts), MinOf(starts) + 5)

\* The maximal digit runs of s as <<first, last>> index pairs
DigitRuns(s) ==
    {r \in (1..Len(s)) \X (1..Len(s)) :
        /\ r[1] <= r[2]
        /\ \A k \in r[1]..r[2] : s[k] \in Digits
        /\ (r[1] = 1 \/ s[r[1] - 1] \notin Digits)
        /\ (r[2] = Len(s) \/ s[r[2] + 1] \notin Digits)}

\* re.findall(r"\d+", s)[-1]: the last maximal digit run, or <<>> when
\* findall returns the empty list
ReFindallLast(s) ==
    LET runs == DigitRuns(s)
    IN  IF runs = {} THEN <<>>
        ELSE LET r == CHOOSE x \in runs : \A y \in runs : y[1] <= x[1]
             IN  SubSeq(s, r[1], r[2])

SortKeyOf(name_no_ext) ==
    LET match == ReSearch6(name_no_ext)
    IN  IF match # <<>> THEN IntOf(match)
        ELSE LET last == ReFindallLast(name_no_ext)
             IN  IF last # <<>> THEN IntOf(last) ELSE 0

\* The positional rule off by one
ViewOfOffByOne(name_no_ext) ==
    LET parts == SplitUnderscore(name_no_ext)
    IN  IF Len(parts) > 2 THEN parts[3] ELSE parts[Len(parts)]

ViewOf(name_no_ext) ==
    LET parts == SplitUnderscore(name_no_ext)
    IN  IF Len(parts) > 3 THEN parts[4] ELSE parts[Len(parts)]

parse_metadata(filename) ==
    LET name_no_ext == Splitext0(filename)
    IN  [view |-> ViewOf(name_no_ext), sort_key |-> SortKeyOf(name_no_ext)]

\* ------------------------------------------------------------------------
\* The directory tree under OPENFOAM_BASE_DIR
\* ------------------------------------------------------------------------
Jobs == {"j1", "j2"}
Cases == {"001", "002", "003"}
Vars == {"U", "p"}

PNG == <<".", "p", "n", "g">>
JPG == <<".", "j", "p", "g">>
UPNG == <<".", "P", "N", "G">>
TXT == <<".", "t", "x", "t">>
VF == <<"F">>
VS == <<"S">>
VT == <<"T">>

\* A file name of the producing toolchain: a_b_c_<VIEW>_<6 digits><ext>
\* with the view as the 4th token
Nm(view, d, ext) ==
    <<"a", "_", "b", "_", "c", "_">> \o view \o <<"_", "0", "0", "0", "0", "0", d>> \o ext

Notes == <<"n", "o", "t", "e", "s">> \o TXT

Dir(files) == [exists |-> TRUE, files |-> files]
Absent == [exists |-> FALSE, files |-> <<>>]

\* <root>/<job>/CASES/<case>/postProcessing/images/<variable>: the listing
\* in os.listdir order, or Absent
Tree ==
    [d \in Jobs \X Cases \X Vars |->
        CASE d = <<"j1", "001", "U">> ->
                Dir(<<Nm(VF, "2", PNG), Nm(VF, "1", PNG), Nm(VF, "1", JPG),
                      Notes, Nm(VT, "1", UPNG)>>)
          [] d = <<"j1", "002", "U">> ->
                Dir(<<Nm(VF, "1", PNG), Nm(VS, "1", PNG), Nm(VF, "2", PNG)>>)
          [] d = <<"j1", "003", "U">> -> Absent
          [] d = <<"j1", "001", "p">> ->
                Dir(<<Nm(VF, "1", PNG), Nm(VF, "2", PNG), Nm(VF, "3", PNG),
                      Nm(VF, "4", PNG), Nm(VF, "5", PNG)>>)
          [] d = <<"j1", "002", "p">> ->
                Dir(<<Nm(VF, "3", PNG), Nm(VF, "1", PNG), Nm(VF, "2", PNG)>>)
          [] d = <<"j1", "003", "p">> -> Dir(<<Nm(VT, "1", PNG)>>)
          [] d = <<"j2", "001", "U">> ->
                Dir(<<Nm(VF, "1", PNG), Nm(VT, "1", PNG), Nm(VF, "2", PNG)>>)
          [] d = <<"j2", "002", "U">> ->
                Dir(<<Nm(VF, "1", PNG), Nm(VF, "9", PNG), Nm(VT, "1", PNG)>>)
          [] d = <<"j2", "003", "U">> -> Dir(<<Notes>>)
          [] d = <<"j2", "001", "p">> -> Dir(<<Nm(VF, "1", PNG)>>)
          [] d = <<"j2", "002", "p">> ->
                Dir(<<Nm(VF, "1", PNG), Nm(VF, "2", PNG), Nm(VT, "1", PNG)>>)
          [] d = <<"j2", "003", "p">> -> Dir(<<Nm(VF, "1", JPG)>>)]

\* The tree with one image directory replaced
TreeWith(d) == [Tree EXCEPT ![<<"j1", "001", "U">>] = d]

\* full_path = os.path.join(path, f).  A directory holds a name once, so the
\* path names the file by its directory and its position in the listing.
FullPath(job, case, variable, i) ==
    [job |-> job, case |-> case, variable |-> variable, file |-> i]

\* Image files PIL cannot decode: a_b_c_F_000009.png of job j2, case 002
Corrupt == {FullPath("j2", "002", "U", 2)}

\* ------------------------------------------------------------------------
\* load_image_metadata
\* ------------------------------------------------------------------------
Lower(ch) ==
    CASE ch = "P" -> "p" [] ch = "N" -> "n" [] ch = "G" -> "g"
      [] ch = "J" -> "j" [] ch = "E" -> "e" [] OTHER -> ch

EndsWith(s, suffix) ==
    /\ Len(s) >= Len(suffix)
    /\ SubSeq(s, Len(s) - Len(suffix) + 1, Len(s)) = suffix

\* f.lower().endswith((".png", ".jpg", ".jpeg"))
IsImageFile(f) ==
    LET l == [i \in 1..Len(f) |-> Lower(f[i])]
    IN  \/ EndsWith(l, PNG)
        \/ EndsWith(l, JPG)
        \/ EndsWith(l, <<".", "j", "p", "e", "g">>)

\* files = [f for f in os.listdir(path) if ...], as listing positions
RECURSIVE ImageFiles(_, _)
ImageFiles(names, i) ==
    IF i > Len(names) THEN <<>>
    ELSE (IF IsImageFile(names[i]) THEN <<i>> ELSE <<>>) \o ImageFiles(names, i + 1)

\* An insertion that puts an entry in front of earlier entries of equal key
InsertByKeyUnstable(sorted, e) ==
    LET before == {i \in 1..Len(sorted) : sorted[i][1] < e[1]}
        k == IF before = {} THEN 0 ELSE MaxOf(before)
    IN  SubSeq(sorted, 1, k) \o <<e>> \o SubSeq(sorted, k + 1, Len(sorted))

\* list.sort(key=lambda x: x[0]) is stable: an entry goes behind every
\* earlier entry whose key is not greater
InsertByKey(sorted, e) ==
    LET before == {i \in 1..Len(sorted) : sorted[i][1] <= e[1]}
        k == IF before = {} THEN 0 ELSE MaxOf(before)
    IN  SubSeq(sorted, 1, k) \o <<e>> \o SubSeq(sorted, k + 1, Len(sorted))

RECURSIVE SortByKey(_)
SortByKey(entries) ==
    IF entries = <<>> THEN <<>>
    ELSE InsertByKey(SortByKey(SubSeq(entries, 1, Len(entries) - 1)),
                     entries[Len(entries)])

\* The (sort_key, full_path) entries appended for one view, in listing order
RECURSIVE EntriesOf(_, _, _, _, _, _)
EntriesOf(names, files, view, job, case, variable) ==
    IF files = <<>> THEN <<>>
    ELSE LET meta == parse_metadata(names[Head(files)])
         IN  (IF meta.view = view
              THEN <<<<meta.sort_key, FullPath(job, case, variable, Head(files))>>>>
              ELSE <<>>)
             \o EntriesOf(names, Tail(files), view, job, case, variable)

CaseIndex(tree, job, case, variable) ==
    LET names == tree[<<job, case, variable>>].files
        files == ImageFiles(names, 1)
        views == {parse_metadata(names[files[i]]).view : i \in 1..Len(files)}
    IN  [v \in views |-> SortByKey(EntriesOf(names, files, v, job, case, variable))]

\* dataset: only the cases whose image directory exists get an entry
load_image_metadata(tree, job, selected_cases, variable_folder) ==
    [case \in {c \in Range(selected_cases) : tree[<<job, c, variable_folder>>].exists}
        |-> CaseIndex(tree, job, case, variable_folder)]

load_and_resize_image(path) == [pixels_of |-> path]

\* ------------------------------------------------------------------------
\* State
\* ------------------------------------------------------------------------
\* ------------------------------------------------------------------------
VARIABLES
    filename, parsed,        \* input and result of the parser
    listing,                 \* input of the index builder: one image directory
    data_loaded,             \* st.session_state.data_loaded
    active_blink_case,       \* st.session_state.active_blink_case
    blink_cache,             \* st.session_state.blink_cache
    selected_job,            \* "Select Job / Run" selectbox
    mode,                    \* "Display Mode" radio
    ms_cases,                \* "Select Cases" multiselect (selection order)
    c1, c2,                  \* "Case A" / "Case B" selectboxes
    variable,                \* "Variable" selectbox
    available_views,         \* options of the "Camera View" selectbox
    view_selection,          \* value of the "Camera View" selectbox
    slider_max,              \* upper end of the "Frame Position" slider
    frame_index,             \* value of the "Frame Position" slider
    dataset,                 \* result of load_image_metadata in the last run
    metadata_called,         \* whether the last run called load_image_metadata
    outcome,                 \* where the last script run ended
    shown,                   \* case -> raster passed to st.image in the last run
    last_action              \* the user interaction that caused the last run

pvars == <<filename, parsed>>
svars == <<data_loaded, active_blink_case, blink_cache>>
wvars == <<selected_job, mode, ms_cases, c1, c2, variable, available_views,
           view_selection, slider_max, frame_index>>
ovars == <<dataset, metadata_called, outcome, shown, last_action>>
vars == <<pvars, listing, svars, wvars, ovars>>

NoImages == [c \in {} |-> 0]
EmptyCache == [k \in {} |-> 0]
NoDataset == [c \in {} |-> 0]

\* ------------------------------------------------------------------------
\* Session state
\* ------------------------------------------------------------------------
Session ==
    [data_loaded |-> data_loaded,
     active_blink_case |-> active_blink_case,
     blink_cache |-> blink_cache]

\* A callback that forgets to clear data_loaded
reset_state_keeps_loaded ==
    [data_loaded |-> data_loaded,
     active_blink_case |-> None,
     blink_cache |-> EmptyCache]

\* A callback that forgets to clear the blink cache
reset_state_keeps_cache ==
    [data_loaded |-> FALSE,
     active_blink_case |-> None,
     blink_cache |-> blink_cache]

reset_state ==
    [data_loaded |-> FALSE,
     active_blink_case |-> None,
     blink_cache |-> EmptyCache]

\* ------------------------------------------------------------------------
\* One run of main() for given widget values
\* ------------------------------------------------------------------------
CaseOrder == <<"001", "002", "003">>
VarOrder == <<"U", "p">>

\* sorted 3-digit directories under <job>/CASES
all_cases(job) == IF job = None THEN <<>> ELSE CaseOrder

RECURSIVE ExistingVars(_, _, _)
ExistingVars(tree, job, vs) ==
    IF vs = <<>> THEN <<>>
    ELSE (IF tree[<<job, all_cases(job)[1], Head(vs)>>].exists
          THEN <<Head(vs)>> ELSE <<>>)
         \o ExistingVars(tree, job, Tail(vs))

\* sorted variable directories of the master case all_cases[0]
avail_vars(tree, job) == IF job = None THEN <<>> ELSE ExistingVars(tree, job, VarOrder)

CodePoint(ch) ==
    CASE ch \in Digits -> 48 + DigitVal(ch)
      [] ch = "." -> 46 [] ch = "F" -> 70 [] ch = "S" -> 83 [] ch = "T" -> 84
      [] ch = "_" -> 95 [] ch = "a" -> 97 [] ch = "b" -> 98 [] ch = "c" -> 99
      [] ch = "x" -> 120 [] OTHER -> 127

\* Python's str comparison a <= b
RECURSIVE StrLeq(_, _)
StrLeq(a, b) ==
    IF a = <<>> THEN TRUE
    ELSE IF b = <<>> THEN FALSE
    ELSE IF Head(a) = Head(b) THEN StrLeq(Tail(a), Tail(b))
    ELSE CodePoint(Head(a)) < CodePoint(Head(b))

\* sorted(list(common_views))
RECURSIVE SortedViews(_)
SortedViews(S) ==
    IF S = {} THEN <<>>
    ELSE LET m == CHOOSE x \in S : \A y \in S : StrLeq(x, y)
         IN  <<m>> \o SortedViews(S \ {m})

\* The loop with union in place of intersection
RECURSIVE CommonViewsUnion(_, _)
CommonViewsUnion(ds, cases) ==
    IF Len(cases) = 1 THEN DOMAIN ds[cases[1]]
    ELSE CommonViewsUnion(ds, SubSeq(cases, 1, Len(cases) - 1))
         \cup DOMAIN ds[cases[Len(cases)]]

\* common_views after the loop over selected_cases (every case is in ds)
RECURSIVE CommonViews(_, _)
CommonViews(ds, cases) ==
    IF Len(cases) = 1 THEN DOMAIN ds[cases[1]]
    ELSE CommonViews(ds, SubSeq(cases, 1, Len(cases) - 1))
         \cap DOMAIN ds[cases[Len(cases)]]

\* A wrapping index in place of the clamp
ClampIndexWrap(frame, n) == frame % n

\* idx = min(frame_index, len(case_imgs) - 1)
ClampIndex(frame, n) == IF frame < n - 1 THEN frame ELSE n - 1

\* path of the frame a case shows: case_imgs[idx][1]
FramePath(ds, case, view, frame) ==
    LET case_imgs == ds[case][view]
        idx == ClampIndex(frame, Len(case_imgs))
    IN  case_imgs[idx + 1][2]

\* A switch that can only go to Case B
SwitchCaseStuck(active, case_a, case_b) == case_b

\* The "Switch Case" button
SwitchCase(active, case_a, case_b) ==
    IF active = case_a THEN case_b ELSE case_a

Widgets ==
    [job |-> selected_job, mode |-> mode, ms |-> ms_cases, c1 |-> c1, c2 |-> c2,
     variable |-> variable, view |-> view_selection, frame |-> frame_index]

StageOf(o) ==
    CASE o = "stop_job" -> 0
      [] o = "stop_cases" -> 1
      [] o = "stop_variable" -> 2
      [] o = "stop_load" -> 3
      [] o \in {"KeyError", "NoCommonViews"} -> 4
      [] o \in {"DecodeError", "KeyErrorView"} -> 5
      [] o = "rendered" -> 6

\* The state a run leaves behind when it stops before any widget below the
\* job selectbox is drawn; later stages overwrite what they reach
Stopped(job, sess) ==
    [job |-> job, mode |-> "Side-by-Side", ms |-> <<>>, c1 |-> None, c2 |-> None,
     variable |-> None, available_views |-> <<>>, view |-> <<>>,
     slider_max |-> 0, frame |-> 0,
     data_loaded |-> sess.data_loaded,
     active_blink_case |-> sess.active_blink_case,
     blink_cache |-> sess.blink_cache,
     dataset |-> NoDataset, metadata_called |-> FALSE,
     outcome |-> "stop_job", shown |-> NoImages]

\* ---- Lines 286-406: the visualization for a resolved view and position ----

\* case -> path of the frame the case shows
Paths(ds, selected_cases, view, frame) ==
    [c \in Range(selected_cases) |-> FramePath(ds, c, view, frame)]

\* Image.open raises for one of the frames to load
DecodeFails(ds, selected_cases, view, frame) ==
    \E c \in Range(selected_cases) : FramePath(ds, c, view, frame) \in Corrupt

\* images[case] = load_and_resize_image(path) for every selected case
Images(ds, selected_cases, view, frame) ==
    [c \in Range(selected_cases) |->
        load_and_resize_image(Paths(ds, selected_cases, view, frame)[c])]

\* Lines 327-330: st.image(blink_images[active_case])
BlinkShow(r, cache_key) ==
    [r EXCEPT !.shown = [c \in {r.active_blink_case} |-> r.blink_cache[cache_key][c]],
              !.outcome = "rendered"]

\* Lines 311-322: the default active case and the Switch Case button
BlinkActive(r, case_a, case_b, click) ==
    IF click = "switch"
    THEN SwitchCase(IF r.active_blink_case = None THEN case_a
                    ELSE r.active_blink_case, case_a, case_b)
    ELSE IF r.active_blink_case = None THEN case_a ELSE r.active_blink_case

\* Lines 295-309: the cache lookup, filled on a miss
BlinkCacheFilled(cache, cache_key, images) ==
    IF cache_key \in DOMAIN cache THEN cache
    ELSE [k \in DOMAIN cache \cup {cache_key} |->
             IF k = cache_key THEN images ELSE cache[k]]

\* Lines 291-345
BlinkView(r, selected_cases, click, cache_key) ==
    IF /\ cache_key \notin DOMAIN r.blink_cache
       /\ DecodeFails(r.dataset, selected_cases, r.view, r.frame)
    THEN [r EXCEPT !.outcome = "DecodeError"]
    ELSE BlinkShow(
            [r EXCEPT !.blink_cache =
                          BlinkCacheFilled(r.blink_cache, cache_key,
                              Images(r.dataset, selected_cases, r.view, r.frame)),
                      !.active_blink_case =
                          BlinkActive(r, selected_cases[1], selected_cases[2], click)],
            cache_key)

\* dataset[case][view_selection] raises KeyError for a case without the view
Visualize(r, selected_cases, click) ==
    IF \E c \in Range(selected_cases) : r.view \notin DOMAIN r.dataset[c]
    THEN [r EXCEPT !.outcome = "KeyErrorView"]
    ELSE IF r.mode = "Blink Comparator"
    THEN BlinkView(r, selected_cases, click,
                   <<selected_cases[1], selected_cases[2], r.view, r.frame>>)
    ELSE IF DecodeFails(r.dataset, selected_cases, r.view, r.frame)
    THEN [r EXCEPT !.outcome = "DecodeError"]
    ELSE [r EXCEPT !.shown = Images(r.dataset, selected_cases, r.view, r.frame),
                   !.outcome = "rendered"]

\* ---- Lines 271-284: the view controls ----

\* The slider exists only for a master sequence of more than one frame
SliderMax(ds, master, view) ==
    IF view \in DOMAIN ds[master] /\ Len(ds[master][view]) > 1
    THEN Len(ds[master][view]) - 1 ELSE 0

\* The slider keeps its value only if it was drawn with the same range
FrameValue(w, smax) ==
    IF smax > 0 /\ smax = slider_max /\ w.frame <= smax THEN w.frame ELSE 0

FrameControl(r, w, selected_cases, click, smax) ==
    Visualize([r EXCEPT !.slider_max = smax, !.frame = FrameValue(w, smax)],
              selected_cases, click)

\* The selectbox keeps its value only if it was drawn with the same options
ViewValue(w, opts) ==
    IF opts = available_views /\ w.view \in Range(opts) THEN w.view ELSE opts[1]

ViewControls(r, w, selected_cases, click, opts) ==
    FrameControl([r EXCEPT !.available_views = opts, !.view = ViewValue(w, opts)],
                 w, selected_cases, click,
                 SliderMax(r.dataset, selected_cases[1], ViewValue(w, opts)))

\* ---- Lines 258-269: the common views ----
CommonViewStep(r, w, selected_cases, click) ==
    IF \E c \in Range(selected_cases) : c \notin DOMAIN r.dataset
    THEN [r EXCEPT !.outcome = "KeyError"]
    ELSE IF CommonViews(r.dataset, selected_cases) = {}
    THEN [r EXCEPT !.outcome = "NoCommonViews"]
    ELSE ViewControls(r, w, selected_cases, click,
                      SortedViews(CommonViews(r.dataset, selected_cases)))

\* ---- Lines 253-256: the metadata ----
AfterLoad(r, w, selected_cases, click) ==
    CommonViewStep(
        [r EXCEPT !.dataset = load_image_metadata(Tree, r.job, selected_cases, r.variable),
                  !.metadata_called = TRUE],
        w, selected_cases, click)

\* ---- Lines 244-251: the load gate.  The button sets data_loaded and
\* reruns; the rerun passes the gate with no button pressed. ----
LoadGate(r, w, sess, selected_cases, click) ==
    IF sess.data_loaded \/ click = "load"
    THEN AfterLoad([r EXCEPT !.data_loaded = TRUE], w, selected_cases,
                   IF sess.data_loaded THEN click ELSE "none")
    ELSE [r EXCEPT !.outcome = "stop_load"]

\* ---- Lines 224-242: the variable.  A widget keeps its value from the
\* previous run only if it was drawn there with the same options;
\* otherwise it shows its default. ----
VariableValue(w) ==
    IF /\ avail_vars(Tree, w.job) = avail_vars(Tree, selected_job)
       /\ w.variable \in Range(avail_vars(Tree, w.job))
    THEN w.variable ELSE None

VariableStep(r, w, sess, selected_cases, click) ==
    IF selected_cases = <<>> THEN r
    ELSE IF VariableValue(w) = None
    THEN [r EXCEPT !.variable = None, !.outcome = "stop_variable"]
    ELSE LoadGate([r EXCEPT !.variable = VariableValue(w)], w, sess,
                  selected_cases, click)

\* ---- Lines 198-222: mode and case selection ----
SameCases(w) == all_cases(w.job) = all_cases(selected_job)

\* st.multiselect: empty by default
MultiselectValue(w) ==
    IF w.mode = "Grid View" /\ SameCases(w) THEN w.ms ELSE <<>>

\* st.selectbox: the first option by default
CaseValue(w, value) ==
    IF w.mode # "Grid View" /\ SameCases(w) /\ value \in Range(all_cases(w.job))
    THEN value
    ELSE IF all_cases(w.job) = <<>> THEN None ELSE all_cases(w.job)[1]

CaseSelection(w) ==
    IF w.mode = "Grid View" THEN MultiselectValue(w)
    ELSE IF CaseValue(w, w.c1) # None /\ CaseValue(w, w.c2) # None
    THEN <<CaseValue(w, w.c1), CaseValue(w, w.c2)>>
    ELSE <<>>

CaseStep(r, w, sess, click) ==
    VariableStep(
        IF w.mode = "Grid View"
        THEN [r EXCEPT !.mode = w.mode, !.ms = MultiselectValue(w),
                       !.outcome = "stop_cases"]
        ELSE [r EXCEPT !.mode = w.mode, !.c1 = CaseValue(w, w.c1),
                       !.c2 = CaseValue(w, w.c2), !.outcome = "stop_cases"],
        w, sess, CaseSelection(w), click)

\* ---- Lines 167-188: main() from the job selectbox on ----
ScriptRun(w, sess, click) ==
    IF w.job = None THEN Stopped(w.job, sess)
    ELSE CaseStep(Stopped(w.job, sess), w, sess, click)

Assign(r, action) ==
    /\ selected_job' = r.job
    /\ mode' = r.mode
    /\ ms_cases' = r.ms
    /\ c1' = r.c1
    /\ c2' = r.c2
    /\ variable' = r.variable
    /\ available_views' = r.available_views
    /\ view_selection' = r.view
    /\ slider_max' = r.slider_max
    /\ frame_index' = r.frame
    /\ data_loaded' = r.data_loaded
    /\ active_blink_case' = r.active_blink_case
    /\ blink_cache' = r.blink_cache
    /\ dataset' = r.dataset
    /\ metadata_called' = r.metadata_called
    /\ outcome' = r.outcome
    /\ shown' = r.shown
    /\ last_action' = action
    /\ UNCHANGED <<pvars, listing>>

\* The state after a user interaction: callbacks have run, then main()
Rerun(w, sess, click, action) == Assign(ScriptRun(w, sess, click), action)

\* ------------------------------------------------------------------------
\* Initial state: session defaults (lines 17-25) and the first run, which
\* stops at the empty job selectbox
\* ------------------------------------------------------------------------
InitSession ==
    /\ data_loaded = FALSE
    /\ active_blink_case = None
    /\ blink_cache = EmptyCache

InitApp ==
    /\ InitSession
    /\ selected_job = None
    /\ mode = "Side-by-Side"
    /\ ms_cases = <<>>
    /\ c1 = None
    /\ c2 = None
    /\ variable = None
    /\ available_views = <<>>
    /\ view_selection = <<>>
    /\ slider_max = 0
    /\ frame_index = 0
    /\ dataset = NoDataset
    /\ metadata_called = FALSE
    /\ outcome = "stop_job"
    /\ shown = NoImages
    /\ last_action = "start"

Init ==
    /\ filename = <<>>
    /\ parsed = <<>>
    /\ listing = Absent
    /\ InitApp

\* ------------------------------------------------------------------------
\* User interactions.  Each one sets a widget, runs the widget's on_change
\* callback if it has one, and reruns main().
\* ------------------------------------------------------------------------
Modes == {"Side-by-Side", "Grid View", "Blink Comparator"}

SelectJob ==
    \E j \in Jobs \cup {None} :
        /\ j # selected_job
        /\ Rerun([Widgets EXCEPT !.job = j], reset_state, "none", "SelectJob")

SelectMode ==
    \E m \in Modes :
        /\ StageOf(outcome) >= 1
        /\ m # mode
        /\ Rerun([Widgets EXCEPT !.mode = m], reset_state, "none", "SelectMode")

AddCase ==
    \E c \in Range(all_cases(selected_job)) \ Range(ms_cases) :
        /\ StageOf(outcome) >= 1
        /\ mode = "Grid View"
        /\ Rerun([Widgets EXCEPT !.ms = Append(ms_cases, c)], reset_state,
                 "none", "AddCase")

RemoveCase ==
    \E i \in 1..Len(ms_cases) :
        /\ StageOf(outcome) >= 1
        /\ mode = "Grid View"
        /\ Rerun([Widgets EXCEPT !.ms = SubSeq(ms_cases, 1, i - 1)
                                        \o SubSeq(ms_cases, i + 1, Len(ms_cases))],
                 reset_state, "none", "RemoveCase")

SelectCaseA ==
    \E c \in Range(all_cases(selected_job)) :
        /\ StageOf(outcome) >= 1
        /\ mode # "Grid View"
        /\ c # c1
        /\ Rerun([Widgets EXCEPT !.c1 = c], reset_state, "none", "SelectCaseA")

SelectCaseB ==
    \E c \in Range(all_cases(selected_job)) :
        /\ StageOf(outcome) >= 1
        /\ mode # "Grid View"
        /\ c # c2
        /\ Rerun([Widgets EXCEPT !.c2 = c], reset_state, "none", "SelectCaseB")

SelectVariable ==
    \E v \in Range(avail_vars(Tree, selected_job)) \cup {None} :
        /\ StageOf(outcome) >= 2
        /\ v # variable
        /\ Rerun([Widgets EXCEPT !.variable = v], reset_state, "none",
                 "SelectVariable")

ClickLoad ==
    /\ outcome = "stop_load"
    /\ Rerun(Widgets, Session, "load", "ClickLoad")

SelectView ==
    \E v \in Range(available_views) :
        /\ StageOf(outcome) >= 5
        /\ v # view_selection
        /\ Rerun([Widgets EXCEPT !.view = v], Session, "none", "SelectView")

SlideFrame ==
    \E i \in 0..slider_max :
        /\ StageOf(outcome) >= 5
        /\ i # frame_index
        /\ Rerun([Widgets EXCEPT !.frame = i], Session, "none", "SlideFrame")

ClickSwitch ==
    /\ outcome = "rendered"
    /\ mode = "Blink Comparator"
    /\ Rerun(Widgets, Session, "switch", "ClickSwitch")

ClickGenerateGif ==
    /\ outcome = "rendered"
    /\ mode = "Blink Comparator"
    /\ Rerun(Widgets, Session, "gif", "ClickGenerateGif")

ClickDownloadGrid ==
    /\ outcome = "rendered"
    /\ mode = "Grid View"
    /\ Rerun(Widgets, Session, "grid", "ClickDownloadGrid")

Next ==
    \/ SelectJob
    \/ SelectMode
    \/ AddCase
    \/ RemoveCase
    \/ SelectCaseA
    \/ SelectCaseB
    \/ SelectVariable
    \/ ClickLoad
    \/ SelectView
    \/ SlideFrame
    \/ ClickSwitch
    \/ ClickGenerateGif
    \/ ClickDownloadGrid

Spec == Init /\ [][Next]_vars

\* ------------------------------------------------------------------------
\* Specification of the parser: any filename of up to MaxNameLen characters
\* over a small alphabet, built one character at a time and then parsed
\* ------------------------------------------------------------------------
NameChars == {"_", "x", "0", "7", "."}

InitParse ==
    /\ filename = <<>>
    /\ parsed = <<>>
    /\ listing = Absent
    /\ InitApp

TypeChar ==
    \E ch \in NameChars :
        /\ parsed = <<>>
        /\ Len(filename) < MaxNameLen
        /\ filename' = Append(filename, ch)
        /\ UNCHANGED <<parsed, listing, svars, wvars, ovars>>

ParseFile ==
    /\ parsed = <<>>
    /\ parsed' = <<parse_metadata(filename)>>
    /\ UNCHANGED <<filename, listing, svars, wvars, ovars>>

NextParse == TypeChar \/ ParseFile

SpecParse == InitParse /\ [][NextParse]_vars

\* ------------------------------------------------------------------------
\* Specification of the index builder: any listing of one image directory
\* ------------------------------------------------------------------------
FilePool ==
    {Nm(VF, "1", PNG), Nm(VF, "1", JPG), Nm(VF, "2", PNG), Nm(VT, "1", UPNG),
     Nm(VT, "1", PNG), Notes}

\* Listings without repetition: a directory holds a name once
IsListing(l) == \A i, j \in 1..Len(l) : i # j => l[i] # l[j]

InitIndex ==
    /\ filename = <<>>
    /\ parsed = <<>>
    /\ listing \in {Absent} \cup
                {Dir(l) : l \in {x \in UNION {[1..n -> FilePool] : n \in 0..MaxFiles} :
                                    IsListing(x)}}
    /\ InitApp

BuildIndex ==
    /\ ~metadata_called
    /\ dataset' = load_image_metadata(TreeWith(listing), "j1", <<"001">>, "U")
    /\ metadata_called' = TRUE
    /\ UNCHANGED <<pvars, listing, svars, wvars, outcome, shown, last_action>>

NextIndex == BuildIndex

SpecIndex == InitIndex /\ [][NextIndex]_vars

\* ------------------------------------------------------------------------
\* Properties
\* ------------------------------------------------------------------------
\* selected_cases as the sidebar builds it (lines 206-219)
SelectedCases == IF mode = "Grid View" THEN ms_cases ELSE <<c1, c2>>

\* The frame of a sequence that position p must show: the p-th, or the last
\* one once p runs past the end
FrameAt(seq, p) == IF p >= Len(seq) THEN seq[Len(seq)][2] ELSE seq[p + 1][2]

\* C1: in every display mode each case that is shown shows the frame at
\* index min(p, n-1) of its sequence for the chosen view: the last frame when
\* the position is at or beyond the case's length, never a wrap to index 0;
\* Side-by-Side and Grid View show every selected case.
C1_ClampedFrameShown ==
    outcome = "rendered" =>
        /\ \A c \in DOMAIN shown :
              /\ c \in Range(SelectedCases)
              /\ Len(dataset[c][view_selection]) >= 1
              /\ shown[c].pixels_of = FrameAt(dataset[c][view_selection], frame_index)
        /\ mode # "Blink Comparator" => DOMAIN shown = Range(SelectedCases)

\* Lengths 5 and 3 at position 4 show indices 4 and 2
C1_Witness ==
    /\ outcome = "rendered"
    /\ mode = "Side-by-Side"
    /\ frame_index = 4
    /\ c1 = "001" /\ c2 = "002"
    /\ Len(dataset["001"][view_selection]) = 5
    /\ Len(dataset["002"][view_selection]) = 3
    /\ shown["002"].pixels_of = dataset["002"][view_selection][3][2]

\* The views of the image files a case has on disk for the selected job and
\* variable; none when the directory does not exist
ViewsOnDisk(case) ==
    LET d == Tree[<<selected_job, case, variable>>]
    IN  IF d.exists
        THEN {parse_metadata(d.files[i]).view :
                 i \in {k \in 1..Len(d.files) : IsImageFile(d.files[k])}}
        ELSE {}

ViewIntersection ==
    {v \in UNION {ViewsOnDisk(c) : c \in Range(SelectedCases)} :
        \A c \in Range(SelectedCases) : v \in ViewsOnDisk(c)}

C3_AbsentDirectoryIsEmptyIndex ==
    metadata_called =>
        \A c \in Range(SelectedCases) :
            ~Tree[<<selected_job, c, variable>>].exists =>
                /\ c \in DOMAIN dataset
                /\ DOMAIN dataset[c] = {}
                /\ outcome # "KeyError"

\* C4: an image that cannot be decoded does not abort the run: the
\* visualization is still rendered and, in Side-by-Side and Grid View, every
\* selected case whose frame decodes is shown.
C4_DecodeFailureDoesNotAbort ==
    StageOf(outcome) >= 5 =>
        /\ outcome = "rendered"
        /\ mode # "Blink Comparator" =>
              \A c \in Range(SelectedCases) :
                  FrameAt(dataset[c][view_selection], frame_index) \notin Corrupt
                      => c \in DOMAIN shown

SelectionOf(j, m, ms, a, b, v) == <<j, m, ms, a, b, v>>

\* C5: load_image_metadata runs only while data_loaded is true, data_loaded
\* becomes true only by the Load button, and every change of job, mode, case
\* selection or variable leaves data_loaded false and the blink state cleared.
C5_LoadGate ==
    [][ /\ metadata_called' => data_loaded'
        /\ (~data_loaded /\ data_loaded') => last_action' = "ClickLoad"
        /\ SelectionOf(selected_job, mode, ms_cases, c1, c2, variable)'
              # SelectionOf(selected_job, mode, ms_cases, c1, c2, variable)
           => /\ ~data_loaded'
              /\ active_blink_case' = None
              /\ blink_cache' = EmptyCache
              /\ ~metadata_called'
      ]_vars

\* A case selection changed in blink mode and the run stopped at the gate
C5_Witness ==
    /\ last_action = "SelectCaseB"
    /\ mode = "Blink Comparator"
    /\ c2 # "001"
    /\ outcome = "stop_load"
    /\ ~data_loaded
    /\ blink_cache = EmptyCache

\* The position in the directory listing of the file of a dataset entry
ListingPos(e) == e[2].file

\* C6: every sequence of the dataset is non-empty, its sort keys are
\* non-decreasing, and entries with equal keys keep their listing order.
C6_SequencesSortedStable ==
    metadata_called =>
        \A c \in DOMAIN dataset : \A v \in DOMAIN dataset[c] :
            LET seq == dataset[c][v]
            IN  /\ Len(seq) >= 1
                /\ \A i, j \in 1..Len(seq) :
                      i < j =>
                        /\ seq[i][1] <= seq[j][1]
                        /\ seq[i][1] = seq[j][1] => ListingPos(seq[i]) < ListingPos(seq[j])

\* A view with a tie of keys behind a larger key listed first
C6_Witness ==
    /\ metadata_called
    /\ "001" \in DOMAIN dataset
    /\ \E v \in DOMAIN dataset["001"] :
          LET seq == dataset["001"][v]
          IN  /\ Len(seq) = 3
              /\ seq[1][1] = seq[2][1]
              /\ seq[2][1] < seq[3][1]
              /\ ListingPos(seq[3]) < ListingPos(seq[1])

\* C7: the sort key is the value of a digit run of exactly six digits when
\* the stem has one, else the value of the last digit run, else 0.
C7_SortKeyRule ==
    parsed # <<>> =>
        LET stem == Splitext0(filename)
            runs == DigitRuns(stem)
            six == {r \in runs : r[2] - r[1] + 1 = 6}
        IN  parsed[1].sort_key \in
                (IF six # {} THEN {IntOf(SubSeq(stem, r[1], r[2])) : r \in six}
                 ELSE IF runs # {}
                      THEN {IntOf(SubSeq(stem, r[1], r[2])) :
                               r \in {x \in runs : \A y \in runs : y[1] <= x[1]}}
                      ELSE {0})

\* The k-th token of s when s is cut at every underscore
TokenCount(s) == Cardinality({i \in 1..Len(s) : s[i] = "_"}) + 1
Token(s, k) ==
    LET us == {i \in 1..Len(s) : s[i] = "_"}
        nth(n) == CHOOSE i \in us : Cardinality({j \in us : j <= i}) = n
        from == IF k = 1 THEN 1 ELSE nth(k - 1) + 1
        to == IF k = TokenCount(s) THEN Len(s) ELSE nth(k) - 1
    IN  SubSeq(s, from, to)

\* C8: view is the token at 0-based position 3 of the stem when the stem
\* has more than 3 tokens, and the last token otherwise.
C8_ViewRule ==
    parsed # <<>> =>
        LET stem == Splitext0(filename)
        IN  parsed[1].view = IF TokenCount(stem) > 3 THEN Token(stem, 4)
                             ELSE Token(stem, TokenCount(stem))

\* A stem of five tokens whose 4th token is neither empty nor the last one
C8_Witness ==
    /\ parsed # <<>>
    /\ TokenCount(Splitext0(filename)) = 5
    /\ parsed[1].view # <<>>
    /\ parsed[1].view # Token(Splitext0(filename), 5)
    /\ parsed[1].view # Token(Splitext0(filename), 3)

\* C9: the active blink case exists only in Blink Comparator mode and is one
\* of the two selected cases; the blink view shows that case alone; it is
\* Case A right after a load; a Switch Case click moves it to the other case.
C9_BlinkActiveCase ==
    [][ /\ active_blink_case' # None =>
              /\ mode' = "Blink Comparator"
              /\ active_blink_case' \in {c1', c2'}
        /\ (mode' = "Blink Comparator" /\ outcome' = "rendered") =>
              /\ active_blink_case' # None
              /\ DOMAIN shown' = {active_blink_case'}
        /\ (last_action' = "ClickLoad" /\ active_blink_case' # None) =>
              active_blink_case' = c1'
        /\ last_action' = "ClickSwitch" =>
              /\ c1' = c1 /\ c2' = c2
              /\ active_blink_case = c1 => active_blink_case' = c2
              /\ active_blink_case = c2 => active_blink_case' = c1
      ]_vars

\* Switched from Case A to a different Case B
C9_Witness ==
    /\ last_action = "ClickSwitch"
    /\ outcome = "rendered"
    /\ c1 # c2
    /\ active_blink_case = c2
    /\ DOMAIN shown = {c2}

\* C10: every entry of the blink cache is keyed by the two selected cases
\* and holds, for each of them, the frame at index min(position, n-1) of
\* the case's sequence for the keyed view in the selected job and variable.
C10_BlinkCacheFresh ==
    \A k \in DOMAIN blink_cache :
        /\ selected_job # None
        /\ variable # None
        /\ k[1] = c1 /\ k[2] = c2
        /\ DOMAIN blink_cache[k] = {c1, c2}
        /\ \A c \in {c1, c2} :
              /\ Tree[<<selected_job, c, variable>>].exists
              /\ k[3] \in DOMAIN CaseIndex(Tree, selected_job, c, variable)
              /\ blink_cache[k][c].pixels_of =
                    FrameAt(CaseIndex(Tree, selected_job, c, variable)[k[3]], k[4])

\* An entry is read back from a cache that holds several positions
C10_Witness ==
    /\ mode = "Blink Comparator"
    /\ outcome = "rendered"
    /\ last_action = "ClickSwitch"
    /\ Cardinality(DOMAIN blink_cache) >= 2
    /\ <<c1, c2, view_selection, frame_index>> \in DOMAIN blink_cache
    /\ \E k \in DOMAIN blink_cache : k[4] >= Len(dataset[c2][k[3]])

=============================================================================
